---------------------------- MODULE Spec2Model ----------------------------
(***************************************************************************)
(* A model of setup.py of AuthenticatorTray: the two URL parsers           *)
(* (parse_otpauth_url, parse_migration_url), the dispatcher                *)
(* (process_qr_code), the writer (create_accounts_json) and main.          *)
(*                                                                         *)
(* A Python str is a sequence of one-character strings, a bytes object a   *)
(* sequence of integers in 0..255.  A value that may be None, and the      *)
(* result of a call that may raise, is None or Some(v).                    *)
(***************************************************************************)
EXTENDS Integers, Sequences, FiniteSets, TLC

None == [ some |-> FALSE ]
Some(v) == [ some |-> TRUE, val |-> v ]

(***************************************************************************)
(* Character tables.                                                       *)
(***************************************************************************)
LowerLetters ==
  << "a","b","c","d","e","f","g","h","i","j","k","l","m",
     "n","o","p","q","r","s","t","u","v","w","x","y","z" >>

UpperLetters ==
  << "A","B","C","D","E","F","G","H","I","J","K","L","M",
     "N","O","P","Q","R","S","T","U","V","W","X","Y","Z" >>

DecimalDigits == << "0","1","2","3","4","5","6","7","8","9" >>

\* The printable ASCII characters, code points 32..126 in order (the grave
\* accent, which the lexer does not take in a string, by its code point).
Printable ==
  << " ","!","\"","#","$","%","&","'","(",")","*","+",",","-",".","/" >>
  \o DecimalDigits
  \o << ":",";","<","=",">","?","@" >>
  \o UpperLetters
  \o << "[","\\","]","^","_","U+0060" >>
  \o LowerLetters
  \o << "{","|","}","~" >>

\* What decoding yields for a byte that is no printable ASCII character.
ReplacementChar == "U+FFFD"

Range(s) == { s[i] : i \in 1..Len(s) }

\* The first position of c in s, 0 when there is none.
IndexOf(s, c) ==
  IF \E i \in 1..Len(s) : s[i] = c
  THEN CHOOSE i \in 1..Len(s) : s[i] = c /\ \A j \in 1..(i-1) : s[j] # c
  ELSE 0

Contains(s, c) == IndexOf(s, c) # 0

StartsWith(s, p) == Len(s) >= Len(p) /\ SubSeq(s, 1, Len(p)) = p

Tail_(s, n) == SubSeq(s, n + 1, Len(s))

\* str.split(c, 1)
SplitFirst(s, c) ==
  LET i == IndexOf(s, c)
  IN  IF i = 0 THEN << s >> ELSE << SubSeq(s, 1, i - 1), Tail_(s, i) >>

\* str.split(c)
RECURSIVE Split(_, _)
Split(s, c) ==
  LET i == IndexOf(s, c)
  IN  IF i = 0 THEN << s >>
      ELSE << SubSeq(s, 1, i - 1) >> \o Split(Tail_(s, i), c)

\* str.lstrip(c)
RECURSIVE LStrip(_, _)
LStrip(s, c) ==
  IF Len(s) > 0 /\ s[1] = c THEN LStrip(Tail(s), c) ELSE s

\* str.strip() restricted to the blank character
RECURSIVE RStrip(_, _)
RStrip(s, c) ==
  IF Len(s) > 0 /\ s[Len(s)] = c THEN RStrip(SubSeq(s, 1, Len(s) - 1), c) ELSE s

Strip(s) == RStrip(LStrip(s, " "), " ")

CharUpper(c) ==
  IF c \in Range(LowerLetters) THEN UpperLetters[IndexOf(LowerLetters, c)] ELSE c

CharLower(c) ==
  IF c \in Range(UpperLetters) THEN LowerLetters[IndexOf(UpperLetters, c)] ELSE c

\* str.upper(), str.lower()
Upper(s) == [ i \in 1..Len(s) |-> CharUpper(s[i]) ]
Lower(s) == [ i \in 1..Len(s) |-> CharLower(s[i]) ]

\* str.replace("+", " ")
PlusToSpace(s) == [ i \in 1..Len(s) |-> IF s[i] = "+" THEN " " ELSE s[i] ]

IsHexDigit(c) ==
  c \in Range(DecimalDigits) \cup { "a","b","c","d","e","f","A","B","C","D","E","F" }

HexValue(c) ==
  IF c \in Range(DecimalDigits) THEN IndexOf(DecimalDigits, c) - 1
  ELSE IndexOf(UpperLetters, CharUpper(c)) + 9

\* The character a single decoded byte stands for.
ByteChar(b) == IF b >= 32 /\ b <= 126 THEN Printable[b - 31] ELSE ReplacementChar

\* The concatenation of ss[lo], ..., ss[hi], by halves.
RECURSIVE Flatten(_, _, _)
Flatten(ss, lo, hi) ==
  IF lo > hi THEN << >>
  ELSE IF lo = hi THEN ss[lo]
  ELSE LET mid == (lo + hi) \div 2
       IN  Flatten(ss, lo, mid) \o Flatten(ss, mid + 1, hi)

\* urllib.parse.unquote: every %XX with two hex digits becomes the
\* character of that byte, everything else is kept.
IsEscape(s, i) ==
  /\ i >= 1 /\ i + 2 <= Len(s)
  /\ s[i] = "%" /\ IsHexDigit(s[i+1]) /\ IsHexDigit(s[i+2])

Unquote(s) ==
  Flatten([ i \in 1..Len(s) |->
              IF IsEscape(s, i)
              THEN << ByteChar(16 * HexValue(s[i+1]) + HexValue(s[i+2])) >>
              ELSE IF IsEscape(s, i - 1) \/ IsEscape(s, i - 2) THEN << >>
              ELSE << s[i] >> ],
          1, Len(s))

(***************************************************************************)
(* urllib.parse.urlparse, as far as the parsers read its result: scheme,   *)
(* netloc, path and query.  It raises (None here) on a netloc with one     *)
(* bracket only.                                                           *)
(***************************************************************************)
SchemeChars ==
  Range(LowerLetters) \cup Range(UpperLetters) \cup Range(DecimalDigits)
    \cup { "+", "-", "." }

\* The first position at or after 3 of one of "/", "?", "#"; Len(s)+1 if none.
NetlocEnd(s) ==
  LET hits == { i \in 3..Len(s) : s[i] \in { "/", "?", "#" } }
  IN  IF hits = {} THEN Len(s) + 1
      ELSE CHOOSE i \in hits : \A j \in hits : i <= j

urlparse(url) ==
  LET i == IndexOf(url, ":")
      hasScheme ==
        /\ i > 1
        /\ url[1] \in Range(LowerLetters) \cup Range(UpperLetters)
        /\ \A j \in 1..(i-1) : url[j] \in SchemeChars
      scheme == IF hasScheme THEN Lower(SubSeq(url, 1, i - 1)) ELSE << >>
      rest1 == IF hasScheme THEN Tail_(url, i) ELSE url
      hasNetloc == Len(rest1) >= 2 /\ rest1[1] = "/" /\ rest1[2] = "/"
      e == NetlocEnd(rest1)
      netloc == IF hasNetloc THEN SubSeq(rest1, 3, e - 1) ELSE << >>
      rest2 == IF hasNetloc THEN Tail_(rest1, e - 1) ELSE rest1
      rest3 == SplitFirst(rest2, "#")[1]
      pq == SplitFirst(rest3, "?")
  IN  IF Contains(netloc, "[") # Contains(netloc, "]")
      THEN None
      ELSE Some([ scheme |-> scheme, netloc |-> netloc, path |-> pq[1],
                  query |-> IF Len(pq) = 2 THEN pq[2] ELSE << >> ])

(***************************************************************************)
(* urllib.parse.parse_qs(query).get(key, [None])[0]: the value of the      *)
(* first name=value field named key whose value is not blank.              *)
(***************************************************************************)
RECURSIVE FirstValue(_, _)
FirstValue(fields, key) ==
  IF Len(fields) = 0 THEN None
  ELSE LET nv == SplitFirst(fields[1], "=")
       IN  IF /\ Len(nv) = 2
              /\ Len(nv[2]) > 0
              /\ Unquote(PlusToSpace(nv[1])) = key
           THEN Some(Unquote(PlusToSpace(nv[2])))
           ELSE FirstValue(Tail(fields), key)

parse_qs_get(query, key) == FirstValue(Split(query, "&"), key)

(***************************************************************************)
(* int(text): blanks stripped, an optional sign, then decimal digits with  *)
(* single underscores allowed between them; anything else raises (None).   *)
(***************************************************************************)
RECURSIVE DigitsValue(_, _)
DigitsValue(s, acc) ==
  IF Len(s) = 0 THEN acc
  ELSE IF s[1] = "_" THEN DigitsValue(Tail(s), acc)
  ELSE DigitsValue(Tail(s), 10 * acc + (IndexOf(DecimalDigits, s[1]) - 1))

IsDigitRun(s) ==
  /\ Len(s) > 0
  /\ \A i \in 1..Len(s) : s[i] \in Range(DecimalDigits) \cup { "_" }
  /\ s[1] # "_" /\ s[Len(s)] # "_"
  /\ \A i \in 1..(Len(s) - 1) : ~(s[i] = "_" /\ s[i+1] = "_")

int(text) ==
  LET t == Strip(text)
      signed == Len(t) > 0 /\ t[1] \in { "+", "-" }
      body == IF signed THEN Tail(t) ELSE t
  IN  IF ~IsDigitRun(body) THEN None
      ELSE IF signed /\ t[1] = "-" THEN Some(0 - DigitsValue(body, 0))
      ELSE Some(DigitsValue(body, 0))


(***************************************************************************)
(* The text constants of setup.py.                                         *)
(***************************************************************************)
S_otpauth == << "o","t","p","a","u","t","h" >>
S_secret == << "s","e","c","r","e","t" >>
S_issuer == << "i","s","s","u","e","r" >>
S_algorithm == << "a","l","g","o","r","i","t","h","m" >>
S_digits == << "d","i","g","i","t","s" >>
S_data == << "d","a","t","a" >>
S_SHA1 == << "S","H","A","1" >>
S_SHA256 == << "S","H","A","2","5","6" >>
S_SHA512 == << "S","H","A","5","1","2" >>
S_MD5 == << "M","D","5" >>
S_Unknown == << "U","n","k","n","o","w","n" >>
S_otpauth_migration == << "o","t","p","a","u","t","h","-","m","i","g","r","a","t","i","o","n" >>
S_otpauth_prefix == << "o","t","p","a","u","t","h",":","/","/" >>
S_migration_prefix == << "o","t","p","a","u","t","h","-","m","i","g","r","a","t","i","o","n",":","/","/" >>

\* Python's truth value of a str-or-None.
Truthy(x) == x.some /\ Len(x.val) > 0

\* dict.get(key, [default])[0]
GetOr(query, key, default) ==
  LET v == parse_qs_get(query, key) IN IF v.some THEN v.val ELSE default

(***************************************************************************)
(* parse_otpauth_url                                                       *)
(***************************************************************************)
\* LabelSplit with the precedence reversed: the label's prefix wins over
\* the issuer parameter.
LabelSplitPrefixFirst(label, issuer) ==
  IF Contains(label, ":")
  THEN LET parts == SplitFirst(label, ":")
       IN  [ issuer |-> parts[1], account_name |-> parts[2] ]
  ELSE [ issuer |-> IF Truthy(issuer) THEN issuer.val ELSE << >>,
         account_name |-> label ]

\* Issuer and account name from the label and the issuer parameter.
LabelSplit(label, issuer) ==
  IF Contains(label, ":")
  THEN LET parts == SplitFirst(label, ":")
       IN  IF Truthy(issuer)
           THEN [ issuer |-> issuer.val, account_name |-> parts[2] ]
           ELSE [ issuer |-> parts[1], account_name |-> parts[2] ]
  ELSE [ issuer |-> IF Truthy(issuer) THEN issuer.val ELSE << >>,
         account_name |-> label ]

\* The display name of parse_otpauth_url.
DisplayNameOtpauth(issuer, account_name) ==
  IF Len(issuer) > 0 /\ Len(account_name) > 0
  THEN issuer \o << " ", "(" >> \o account_name \o << ")" >>
  ELSE IF Len(issuer) > 0 THEN issuer
  ELSE IF Len(account_name) > 0 THEN account_name
  ELSE S_Unknown

AlgorithmNames == { S_SHA1, S_SHA256, S_SHA512, S_MD5 }

AlgorithmOtpauth(query) ==
  LET algorithm == Upper(GetOr(query, S_algorithm, S_SHA1))
  IN  IF algorithm \notin AlgorithmNames THEN S_SHA1 ELSE algorithm

\* int(params.get("digits", ["6"])[0]), then the range check; None when
\* int raises.
DigitsOtpauth(query) ==
  LET digits == int(GetOr(query, S_digits, << "6" >>))
  IN  IF ~digits.some THEN None
      ELSE IF digits.val \notin { 6, 7, 8 } THEN Some(6)
      ELSE digits

parse_otpauth_url(url) ==
  LET parsed == urlparse(url)
  IN  IF ~parsed.some THEN None
      ELSE IF parsed.val.scheme # S_otpauth THEN None
      ELSE
        LET label == Unquote(LStrip(parsed.val.path, "/"))
            query == parsed.val.query
            secret == parse_qs_get(query, S_secret)
            split == LabelSplit(label, parse_qs_get(query, S_issuer))
            digits == DigitsOtpauth(query)
        IN  IF ~Truthy(secret) THEN None
            ELSE IF ~digits.some THEN None
            ELSE Some([ name |-> DisplayNameOtpauth(split.issuer, split.account_name),
                        secret |-> secret.val,
                        digits |-> digits.val,
                        algorithm |-> AlgorithmOtpauth(query) ])


(***************************************************************************)
(* base64.urlsafe_b64decode(data): "-" and "_" are read as "+" and "/",    *)
(* characters outside the alphabet are discarded, a completed pad run      *)
(* ends the input, and an incomplete last quad raises (None).              *)
(***************************************************************************)
Base64Alphabet ==
  UpperLetters \o LowerLetters \o DecimalDigits \o << "+", "/" >>

Base64Value(c) ==
  IF c = "-" THEN 62 ELSE IF c = "_" THEN 63
  ELSE IndexOf(Base64Alphabet, c) - 1

IsBase64Char(c) == c \in Range(Base64Alphabet) \cup { "-", "_" }

\* The alphabet characters before position i: the quad position there is
\* their number modulo 4.
DataBefore(s, i) == Cardinality({ j \in 1..(i - 1) : IsBase64Char(s[j]) })

\* The pads counted at position i: the "=" since the last alphabet
\* character, s[i] included.
PadsAt(s, i) ==
  Cardinality({ j \in 1..i :
                  s[j] = "=" /\ \A k \in j..i : ~IsBase64Char(s[k]) })

\* The positions of a "=" that completes the quad and ends the input.
PadEnds(s) ==
  { i \in 1..Len(s) :
      /\ s[i] = "="
      /\ DataBefore(s, i) % 4 >= 2
      /\ (DataBefore(s, i) % 4) + PadsAt(s, i) >= 4 }

a2b_base64(s) ==
  LET ends == PadEnds(s)
      stop == IF ends = {} THEN Len(s) + 1
              ELSE CHOOSE i \in ends : \A j \in ends : i <= j
      v == Flatten([ i \in 1..(stop - 1) |->
                       IF IsBase64Char(s[i]) THEN << Base64Value(s[i]) >>
                       ELSE << >> ],
                   1, stop - 1)
      n == Len(v)
      quad_pos == n % 4
      size == 3 * (n \div 4)
                + (IF quad_pos = 2 THEN 1 ELSE IF quad_pos = 3 THEN 2 ELSE 0)
      byte(k) ==
        LET base == 4 * ((k - 1) \div 3)
        IN  CASE (k - 1) % 3 = 0 -> v[base + 1] * 4 + (v[base + 2] \div 16)
              [] (k - 1) % 3 = 1 ->
                   (v[base + 2] % 16) * 16 + (v[base + 3] \div 4)
              [] OTHER -> (v[base + 3] % 4) * 64 + v[base + 4]
  IN  IF ends = {} /\ quad_pos # 0 THEN None
      ELSE Some([ k \in 1..size |-> byte(k) ])

urlsafe_b64decode(data) ==
  IF ReplacementChar \in Range(data) THEN None
  ELSE a2b_base64(data)

(***************************************************************************)
(* MigrationPayload.ParseFromString: the protobuf wire format.  A message  *)
(* is a run of fields, each a varint tag (field number * 8 + wire type)    *)
(* and a value: wire type 0 a varint, 1 eight bytes, 2 a varint length and *)
(* that many bytes, 5 four bytes.  A field the schema does not know, or    *)
(* knows with another wire type, is skipped; of a repeated scalar the last *)
(* value stands.  A truncated field, field number 0 and the other wire     *)
(* types raise (None).                                                     *)
(***************************************************************************)
\* The varint at the head of `bytes`: its value and the bytes after it.
RECURSIVE ReadVarint(_, _, _, _)
ReadVarint(bytes, acc, weight, n) ==
  IF Len(bytes) = 0 \/ n >= 10 THEN None
  ELSE IF bytes[1] >= 128
       THEN ReadVarint(Tail(bytes), acc + (bytes[1] - 128) * weight,
                       weight * 128, n + 1)
       ELSE Some([ value |-> acc + bytes[1] * weight, rest |-> Tail(bytes) ])

\* One field at the head of `bytes`: number, wire type, value, rest.
ReadField(bytes) ==
  LET tag == ReadVarint(bytes, 0, 1, 0)
  IN  IF ~tag.some \/ tag.val.value \div 8 = 0 THEN None
      ELSE
        LET number == tag.val.value \div 8
            wire == tag.val.value % 8
            rest == tag.val.rest
            field(v, r) ==
              Some([ number |-> number, wire |-> wire, value |-> v, rest |-> r ])
            fixed(k) ==
              IF Len(rest) < k THEN None
              ELSE field(SubSeq(rest, 1, k), Tail_(rest, k))
        IN  CASE wire = 0 ->
                   LET v == ReadVarint(rest, 0, 1, 0)
                   IN  IF ~v.some THEN None
                       ELSE field(v.val.value, v.val.rest)
              [] wire = 1 -> fixed(8)
              [] wire = 5 -> fixed(4)
              [] wire = 2 ->
                   LET l == ReadVarint(rest, 0, 1, 0)
                   IN  IF ~l.some THEN None
                       ELSE IF Len(l.val.rest) < l.val.value THEN None
                       ELSE field(SubSeq(l.val.rest, 1, l.val.value),
                                  Tail_(l.val.rest, l.val.value))
              [] OTHER -> None

\* A string field's bytes as text; a byte outside ASCII raises (None).
DecodeText(bytes) ==
  IF \E i \in 1..Len(bytes) : bytes[i] >= 128 THEN None
  ELSE Some([ i \in 1..Len(bytes) |-> ByteChar(bytes[i]) ])

\* An OtpParameters message with every field at its default.
DefaultOtp ==
  [ secret |-> << >>, name |-> << >>, issuer |-> << >>,
    algorithm |-> 0, digits |-> 0 ]

\* The fields of OtpParameters the parser reads: 1 secret (bytes),
\* 2 name (string), 3 issuer (string), 4 algorithm, 5 digits (enums).
RECURSIVE ParseOtpParameters(_, _)
ParseOtpParameters(bytes, otp) ==
  IF Len(bytes) = 0 THEN Some(otp)
  ELSE
    LET f == ReadField(bytes)
    IN  IF ~f.some THEN None
        ELSE
          LET n == f.val.number
              w == f.val.wire
              v == f.val.value
              next(o) == ParseOtpParameters(f.val.rest, o)
          IN  CASE n = 1 /\ w = 2 -> next([ otp EXCEPT !.secret = v ])
                [] n = 2 /\ w = 2 ->
                     IF ~DecodeText(v).some THEN None
                     ELSE next([ otp EXCEPT !.name = DecodeText(v).val ])
                [] n = 3 /\ w = 2 ->
                     IF ~DecodeText(v).some THEN None
                     ELSE next([ otp EXCEPT !.issuer = DecodeText(v).val ])
                [] n = 4 /\ w = 0 -> next([ otp EXCEPT !.algorithm = v ])
                [] n = 5 /\ w = 0 -> next([ otp EXCEPT !.digits = v ])
                [] OTHER -> next(otp)

\* MigrationPayload: field 1 is the repeated otp_parameters.
RECURSIVE ParseFromString(_, _)
ParseFromString(payload, otp_parameters) ==
  IF Len(payload) = 0 THEN Some(otp_parameters)
  ELSE
    LET f == ReadField(payload)
    IN  IF ~f.some THEN None
        ELSE IF f.val.number = 1 /\ f.val.wire = 2
        THEN LET otp == ParseOtpParameters(f.val.value, DefaultOtp)
             IN  IF ~otp.some THEN None
                 ELSE ParseFromString(f.val.rest, Append(otp_parameters, otp.val))
        ELSE ParseFromString(f.val.rest, otp_parameters)

(***************************************************************************)
(* base64.b32encode: the bits of the bytes in groups of five, the last     *)
(* group filled with zero bits, each group a character of the alphabet,    *)
(* and "=" up to a multiple of eight characters.                           *)
(***************************************************************************)
Base32Alphabet == UpperLetters \o << "2", "3", "4", "5", "6", "7" >>

Pow2(k) == CASE k = 0 -> 1 [] k = 1 -> 2 [] k = 2 -> 4 [] k = 3 -> 8
             [] k = 4 -> 16 [] k = 5 -> 32 [] k = 6 -> 64 [] OTHER -> 128

\* Bit i (1 is the most significant bit of the first byte) of the bytes,
\* 0 past their end.
BitAt(bytes, i) ==
  IF i > 8 * Len(bytes) THEN 0
  ELSE (bytes[((i - 1) \div 8) + 1] \div Pow2(7 - ((i - 1) % 8))) % 2

Quintet(bytes, g) ==
  16 * BitAt(bytes, 5 * g - 4) + 8 * BitAt(bytes, 5 * g - 3)
    + 4 * BitAt(bytes, 5 * g - 2) + 2 * BitAt(bytes, 5 * g - 1)
    + BitAt(bytes, 5 * g)

\* b32encode without the "=" padding.
b32encodeUnpadded(bytes) ==
  [ g \in 1..((8 * Len(bytes) + 4) \div 5) |->
      Base32Alphabet[Quintet(bytes, g) + 1] ]

b32encode(bytes) ==
  LET groups == (8 * Len(bytes) + 4) \div 5
      total == 8 * ((groups + 7) \div 8)
  IN  [ g \in 1..total |->
          IF g <= groups THEN Base32Alphabet[Quintet(bytes, g) + 1] ELSE "=" ]

(***************************************************************************)
(* parse_migration_url                                                     *)
(***************************************************************************)
\* A display name that always writes both parts.
DisplayNameBothParts(issuer, name) ==
  issuer \o << " ", "(" >> \o name \o << ")" >>

\* The display name of parse_migration_url.
DisplayNameMigration(issuer, name) ==
  IF Len(issuer) > 0 /\ Len(name) > 0
  THEN issuer \o << " ", "(" >> \o name \o << ")" >>
  ELSE IF Len(issuer) > 0 THEN issuer
  ELSE IF Len(name) > 0 THEN name
  ELSE S_Unknown

\* algorithm_map.get(otp.algorithm, "Unknown"): the wrong default.
AlgorithmMigrationNoDefault(code) ==
  CASE code = 1 -> S_SHA1
    [] code = 2 -> S_SHA256
    [] code = 3 -> S_SHA512
    [] code = 4 -> S_MD5
    [] OTHER -> S_Unknown

\* algorithm_map.get(otp.algorithm, "SHA1")
AlgorithmMigration(code) ==
  CASE code = 1 -> S_SHA1
    [] code = 2 -> S_SHA256
    [] code = 3 -> S_SHA512
    [] code = 4 -> S_MD5
    [] OTHER -> S_SHA1

\* otp.digits if otp.digits in [6, 7, 8] else 6
DigitsMigration(code) == IF code \in { 6, 7, 8 } THEN code ELSE 6

\* The account appended for one otp of the payload.
MigrationAccount(otp) ==
  [ name |-> DisplayNameMigration(otp.issuer, otp.name),
    secret |-> b32encode(otp.secret),
    digits |-> DigitsMigration(otp.digits),
    algorithm |-> AlgorithmMigration(otp.algorithm) ]

parse_migration_url(url) ==
  LET parsed == urlparse(url)
  IN  IF ~parsed.some THEN None
      ELSE IF parsed.val.scheme # S_otpauth_migration THEN None
      ELSE
        LET data == parse_qs_get(parsed.val.query, S_data)
        IN  IF ~data.some THEN None
            ELSE
              LET payload == urlsafe_b64decode(data.val)
              IN  IF ~payload.some THEN None
                  ELSE
                    LET migration == ParseFromString(payload.val, << >>)
                    IN  IF ~migration.some THEN None
                        ELSE Some([ k \in 1..Len(migration.val) |->
                                      MigrationAccount(migration.val[k]) ])


(***************************************************************************)
(* Inputs.  The decoded strings are built from their parts, the way an     *)
(* authenticator app writes them: a single-account URL from its label and  *)
(* query parameters, a migration URL from the OTP entries of its payload   *)
(* (protobuf-encoded, then base64, then percent-encoded).                  *)
(***************************************************************************)
T_MCB == << "M","C","B" >>
T_Acme == << "A","c","m","e" >>
T_Other == << "O","t","h","e","r" >>
T_GitHub == << "G","i","t","H","u","b" >>
T_Ericlein == << "E","r","i","c","l","e","i","n" >>
T_Discord == << "D","i","s","c","o","r","d" >>
T_ABCDEF == << "A","B","C","D","E","F" >>

\* Labels as written in the URL (percent-encoded).
Labels ==
  { << "M","C","B",":","A","c","m","e" >>,
    << "M","C","B","%","3","A","A","c","m","e" >>,
    << ":","A","c","m","e" >>,
    << "M","C","B",":" >>,
    T_Acme,
    << >> }

\* A query parameter is absent (None) or present with a value.
IssuerParams == { None, Some(T_MCB), Some(T_Other), Some(<< >>) }

SecretParams == { None, Some(T_ABCDEF), Some(<< >>) }

DigitsParams ==
  { None, Some(<< "6" >>), Some(<< "7" >>), Some(<< "8" >>), Some(<< "9" >>),
    Some(<< "a","b","c" >>), Some(<< >>) }

AlgorithmParams ==
  { None, Some(S_SHA1), Some(<< "s","h","a","2","5","6" >>), Some(<< "S","h","a","5","1","2" >>),
    Some(S_MD5), Some(<< "X","Y","Z" >>) }

\* "name=value" for a present parameter.
Param(name, p) == IF p.some THEN << name \o << "=" >> \o p.val >> ELSE << >>

\* The fields joined by "&".
RECURSIVE Join(_)
Join(fields) ==
  IF Len(fields) = 0 THEN << >>
  ELSE IF Len(fields) = 1 THEN fields[1]
  ELSE fields[1] \o << "&" >> \o Join(Tail(fields))

OtpauthUrl(label, secret, issuer, digits, algorithm) ==
  LET fields == Param(S_secret, secret) \o Param(S_issuer, issuer)
                  \o Param(S_digits, digits) \o Param(S_algorithm, algorithm)
  IN  S_otpauth_prefix \o << "t","o","t","p","/" >> \o label
        \o (IF Len(fields) = 0 THEN << >> ELSE << "?" >> \o Join(fields))

\* The URL of the spec's example:
\* otpauth://totp/MCB:Acme?secret=ABCDEF&issuer=MCB&digits=8
ExampleUrl ==
  OtpauthUrl(<< "M","C","B",":","A","c","m","e" >>, Some(T_ABCDEF), Some(T_MCB), Some(<< "8" >>), None)

\* Bounds of the enumerated codes of a migration entry.
MaxAlgorithmCode == 5
MaxDigitCode == 8

Secrets == { None, Some(<< >>), Some(<< 0, 1 >>), Some(<< 255 >>),
             Some(<< 222, 173, 190, 239, 0 >>) }

\* One OTP entry of a payload: secret absent or bytes, name and issuer
\* texts, algorithm and digits codes.
Entries ==
  [ secret : Secrets, name : { << >>, T_Ericlein },
    issuer : { << >>, T_GitHub, T_Discord },
    algorithm : 0..MaxAlgorithmCode, digits : 0..MaxDigitCode ]

\* The two entries of the spec's example payload.
E_GitHub ==
  [ secret |-> Some(<< 0, 1 >>), name |-> T_Ericlein, issuer |-> T_GitHub,
    algorithm |-> 1, digits |-> 1 ]

E_Discord ==
  [ secret |-> Some(<< 255 >>), name |-> << >>, issuer |-> T_Discord,
    algorithm |-> 1, digits |-> 1 ]

E_NoSecret ==
  [ secret |-> None, name |-> T_Ericlein, issuer |-> T_GitHub,
    algorithm |-> 1, digits |-> 1 ]

E_EmptySecret == [ E_NoSecret EXCEPT !.secret = Some(<< >>) ]

\* Payloads of more than one entry, and the one of none.
Batches ==
  { << >>, << E_GitHub, E_Discord >>, << E_NoSecret, E_GitHub >>,
    << E_GitHub, E_EmptySecret, E_Discord >>, << E_GitHub, E_GitHub >> }

\* The character of a printable byte, and back.
CharByte(c) == IndexOf(Printable, c) + 31

\* A varint below 2^14.
EncodeVarint(v) == IF v < 128 THEN << v >> ELSE << 128 + (v % 128), v \div 128 >>

Delimited(tag, bytes) == << tag >> \o EncodeVarint(Len(bytes)) \o bytes

TextBytes(t) == [ i \in 1..Len(t) |-> CharByte(t[i]) ]

\* An OtpParameters message: fields 1 to 6 (type 2, TOTP).
EncodeOtp(e) ==
  (IF e.secret.some THEN Delimited(10, e.secret.val) ELSE << >>)
    \o Delimited(18, TextBytes(e.name)) \o Delimited(26, TextBytes(e.issuer))
    \o << 32 >> \o EncodeVarint(e.algorithm)
    \o << 40 >> \o EncodeVarint(e.digits)
    \o << 48, 2 >>

\* A MigrationPayload: the entries, then version 2, batch_size 1,
\* batch_index 0.
EncodePayload(entries) ==
  Flatten([ k \in 1..Len(entries) |-> Delimited(10, EncodeOtp(entries[k])) ],
          1, Len(entries))
    \o << 16, 2, 24, 1, 32, 0 >>

\* Standard base64 with padding.
b64encode(bytes) ==
  LET n == Len(bytes)
      at(i) == IF i <= n THEN bytes[i] ELSE 0
      quad(q) ==
        LET b1 == at(3 * q + 1)
            b2 == at(3 * q + 2)
            b3 == at(3 * q + 3)
        IN  << Base64Alphabet[(b1 \div 4) + 1],
               Base64Alphabet[((b1 % 4) * 16) + (b2 \div 16) + 1],
               IF 3 * q + 2 > n THEN "="
               ELSE Base64Alphabet[((b2 % 16) * 4) + (b3 \div 64) + 1],
               IF 3 * q + 3 > n THEN "="
               ELSE Base64Alphabet[(b3 % 64) + 1] >>
      quads == (n + 2) \div 3
  IN  Flatten([ q \in 1..quads |-> quad(q - 1) ], 1, quads)

\* urllib.parse.quote(text, safe=""), for the characters of base64.
Quote(text) ==
  Flatten([ i \in 1..Len(text) |->
              CASE text[i] = "=" -> << "%", "3", "D" >>
                [] text[i] = "+" -> << "%", "2", "B" >>
                [] text[i] = "/" -> << "%", "2", "F" >>
                [] OTHER -> << text[i] >> ],
          1, Len(text))

MigrationUrlOfData(data) ==
  S_migration_prefix \o << "o","f","f","l","i","n","e","?" >> \o S_data
    \o << "=" >> \o data

MigrationUrlOfBytes(payload) == MigrationUrlOfData(Quote(b64encode(payload)))

MigrationUrl(entries) == MigrationUrlOfBytes(EncodePayload(entries))

\* A payload cut short inside its last entry.
TruncatedUrl(entries) ==
  LET payload == EncodePayload(entries)
  IN  MigrationUrlOfBytes(SubSeq(payload, 1, Len(payload) - 9))

\* A data parameter cut short one character into its last quad.
BadBase64Url(entries) ==
  LET data == b64encode(EncodePayload(entries))
  IN  MigrationUrlOfData(SubSeq(data, 1, Len(data) - 3))


(***************************************************************************)
(* The run of main: the state.                                             *)
(*   pc             where main is: "start", "loop" (inside the for loop    *)
(*                  of process_qr_code), "done" (main has returned)        *)
(*   runs           how many times setup.py was started                    *)
(*   img_exists     IMG_PNG.exists()                                       *)
(*   urls, i_url    the decoded strings and the index of the one in turn   *)
(*   accounts       the list process_qr_code builds                        *)
(*   qr_processed, accounts_exist   main's two flags                       *)
(*   files          the two output files: absent (None) or a document      *)
(*   before         the files when the run started                         *)
(*   wrote          the file create_accounts_json wrote in this run        *)
(* and, for the parsers called on their own:                               *)
(*   call, args, ret   the parser called, its input, what it returned      *)
(***************************************************************************)
VARIABLES pc, runs, img_exists, urls, i_url, accounts, qr_processed,
          accounts_exist, files, before, wrote, call, args, ret

vars == << pc, runs, img_exists, urls, i_url, accounts, qr_processed,
           accounts_exist, files, before, wrote, call, args, ret >>

mainVars == << pc, runs, img_exists, urls, i_url, accounts, qr_processed,
               accounts_exist, files, before, wrote >>

parseVars == << call, args, ret >>

\* Bounds of the run.
MaxUrls == 2
MaxRuns == 2

U_NoSecret == OtpauthUrl(T_Acme, None, Some(T_MCB), None, None)
U_Unknown == << "h","t","t","p","s",":","/","/","e","x","a","m","p","l","e",".","c","o","m","/" >>
U_Migration == MigrationUrl(<< E_GitHub, E_Discord >>)
U_Truncated == TruncatedUrl(<< E_GitHub, E_Discord >>)
U_BadBase64 == BadBase64Url(<< E_GitHub, E_Discord >>)
U_NoEntries == MigrationUrl(<< >>)

\* The strings decode_qr_image may return.
DecodedStrings ==
  { ExampleUrl, U_NoSecret, U_Migration, U_Truncated, U_BadBase64,
    U_NoEntries, U_Unknown }

DecodedLists == UNION { [ 1..n -> DecodedStrings ] : n \in 0..MaxUrls }

\* What the two parsers return for each decoded string.
OtpauthResult == [ u \in DecodedStrings |-> parse_otpauth_url(u) ]
MigrationResult == [ u \in DecodedStrings |-> parse_migration_url(u) ]

\* The JSON document create_accounts_json dumps.
Document(accts) ==
  [ valid |-> TRUE,
    accounts |-> [ k \in 1..Len(accts) |->
                     [ name |-> accts[k].name, secret |-> accts[k].secret,
                       digits |-> accts[k].digits,
                       algorithm |-> accts[k].algorithm ] ] ]

\* Files found before the first run: a valid document, or no JSON at all.
OldDocument ==
  Document(<< [ name |-> T_Other, secret |-> T_ABCDEF, digits |-> 6,
                algorithm |-> S_SHA1 ] >>)

NotJson == [ valid |-> FALSE, accounts |-> << >> ]

Init ==
  /\ pc = "start"
  /\ runs = 1
  /\ img_exists \in BOOLEAN
  /\ urls = << >>
  /\ i_url = 1
  /\ accounts = << >>
  /\ qr_processed = FALSE
  /\ accounts_exist = FALSE
  /\ files \in [ accounts_json : { None, Some(OldDocument), Some(NotJson) },
                 updated_accounts_json : { None, Some(OldDocument) } ]
  /\ before = files
  /\ wrote = "none"
  /\ call = "none"
  /\ args = None
  /\ ret = None

\* process_qr_code's last lines: None when no account was collected.
process_qr_code_result(accts) ==
  IF Len(accts) = 0 THEN None ELSE Some(accts)

\* create_accounts_json: what it returns, the files after it, the file it
\* wrote.
create_accounts_json(accts, fs) ==
  IF Len(accts) = 0
  THEN [ ret |-> FALSE, files |-> fs, wrote |-> "none" ]
  ELSE LET csharp_file == IF fs.accounts_json.some
                          THEN "updated_accounts_json"
                          ELSE "accounts_json"
       IN  [ ret |-> TRUE,
             files |-> [ fs EXCEPT ![csharp_file] = Some(Document(accts)) ],
             wrote |-> csharp_file ]

\* check_accounts_json: accounts.json exists and is valid JSON.
check_accounts_json(fs) == fs.accounts_json.some /\ fs.accounts_json.val.valid

\* main after the loop: process_qr_code returns, create_accounts_json is
\* called when there are accounts, then check_accounts_json and
\* print_next_steps.
FinishWith(created) ==
  /\ files' = created.files
  /\ wrote' = created.wrote
  /\ qr_processed' = created.ret
  /\ accounts_exist' = check_accounts_json(created.files)
  /\ pc' = "done"

\* main up to the loop of process_qr_code: without img.png, or with no
\* decoded string, it goes on to check_accounts_json at once.
Start ==
  /\ pc = "start"
  /\ IF ~img_exists
     THEN /\ FinishWith([ ret |-> FALSE, files |-> files, wrote |-> "none" ])
          /\ UNCHANGED urls
     ELSE \E decoded \in DecodedLists :
            /\ urls' = decoded
            /\ IF Len(decoded) = 0
               THEN FinishWith([ ret |-> FALSE, files |-> files,
                                 wrote |-> "none" ])
               ELSE /\ pc' = "loop"
                    /\ UNCHANGED << files, wrote, qr_processed, accounts_exist >>
  /\ UNCHANGED << runs, img_exists, i_url, accounts, before >>
  /\ UNCHANGED parseVars

InLoop == pc = "loop" /\ i_url <= Len(urls)

\* "if account: accounts.append(account)".
AppendAccount(accts, account) ==
  IF account.some THEN Append(accts, account.val) ELSE accts

\* "accounts = migration_accounts": the batch replaces the list.
ExtendAccountsReplaces(accts, migration_accounts) ==
  IF migration_accounts.some /\ Len(migration_accounts.val) > 0
  THEN migration_accounts.val
  ELSE accts

\* "if migration_accounts: accounts.extend(migration_accounts)".
ExtendAccounts(accts, migration_accounts) ==
  IF migration_accounts.some /\ Len(migration_accounts.val) > 0
  THEN accts \o migration_accounts.val
  ELSE accts

\* One pass of the loop on a single-account URL.
StepOtpauth ==
  /\ InLoop
  /\ StartsWith(urls[i_url], S_otpauth_prefix)
  /\ accounts' = AppendAccount(accounts, OtpauthResult[urls[i_url]])
  /\ i_url' = i_url + 1
  /\ UNCHANGED << pc, runs, img_exists, urls, qr_processed, accounts_exist,
                  files, before, wrote >>
  /\ UNCHANGED parseVars

\* One pass of the loop on a migration URL.
StepMigration ==
  /\ InLoop
  /\ ~StartsWith(urls[i_url], S_otpauth_prefix)
  /\ StartsWith(urls[i_url], S_migration_prefix)
  /\ accounts' = ExtendAccounts(accounts, MigrationResult[urls[i_url]])
  /\ i_url' = i_url + 1
  /\ UNCHANGED << pc, runs, img_exists, urls, qr_processed, accounts_exist,
                  files, before, wrote >>
  /\ UNCHANGED parseVars

\* One pass of the loop on any other string.
StepUnknown ==
  /\ InLoop
  /\ ~StartsWith(urls[i_url], S_otpauth_prefix)
  /\ ~StartsWith(urls[i_url], S_migration_prefix)
  /\ i_url' = i_url + 1
  /\ UNCHANGED << pc, runs, img_exists, urls, accounts, qr_processed,
                  accounts_exist, files, before, wrote >>
  /\ UNCHANGED parseVars

\* The rest of main with neither "if accounts:" nor the writer's guard.
FinishUnguarded ==
  /\ pc = "loop"
  /\ i_url > Len(urls)
  /\ FinishWith([ ret |-> TRUE,
                  files |-> [ files EXCEPT !["accounts_json"] =
                                             Some(Document(accounts)) ],
                  wrote |-> "accounts_json" ])
  /\ UNCHANGED << runs, img_exists, urls, i_url, accounts, before >>
  /\ UNCHANGED parseVars

\* The loop is over: the rest of main.
Finish ==
  /\ pc = "loop"
  /\ i_url > Len(urls)
  /\ LET result == process_qr_code_result(accounts)
     IN  IF result.some /\ Len(result.val) > 0
         THEN FinishWith(create_accounts_json(result.val, files))
         ELSE FinishWith([ ret |-> FALSE, files |-> files, wrote |-> "none" ])
  /\ UNCHANGED << runs, img_exists, urls, i_url, accounts, before >>
  /\ UNCHANGED parseVars

\* setup.py is started again, with or without a (new) img.png.
Rerun ==
  /\ pc = "done"
  /\ runs < MaxRuns
  /\ pc' = "start"
  /\ runs' = runs + 1
  /\ img_exists' \in BOOLEAN
  /\ urls' = << >>
  /\ i_url' = 1
  /\ accounts' = << >>
  /\ qr_processed' = FALSE
  /\ accounts_exist' = FALSE
  /\ wrote' = "none"
  /\ before' = files
  /\ UNCHANGED files
  /\ UNCHANGED parseVars

Next ==
  \/ Start
  \/ StepOtpauth
  \/ StepMigration
  \/ StepUnknown
  \/ Finish
  \/ Rerun

Spec == Init /\ [][Next]_vars

(***************************************************************************)
(* The parsers called on their own, on every input built from the parts.   *)
(***************************************************************************)
InitParse ==
  /\ pc = "start"
  /\ runs = 1
  /\ img_exists = FALSE
  /\ urls = << >>
  /\ i_url = 1
  /\ accounts = << >>
  /\ qr_processed = FALSE
  /\ accounts_exist = FALSE
  /\ files = [ accounts_json |-> None, updated_accounts_json |-> None ]
  /\ before = files
  /\ wrote = "none"
  /\ call = "none"
  /\ args = None
  /\ ret = None

CallParseOtpauth ==
  /\ call = "none"
  /\ \E label \in Labels, secret \in SecretParams, issuer \in IssuerParams,
        digits \in DigitsParams, algorithm \in AlgorithmParams :
       LET url == OtpauthUrl(label, secret, issuer, digits, algorithm)
       IN  /\ args' = [ label |-> label, secret |-> secret, issuer |-> issuer,
                        digits |-> digits, algorithm |-> algorithm,
                        url |-> url ]
           /\ ret' = parse_otpauth_url(url)
  /\ call' = "parse_otpauth_url"
  /\ UNCHANGED mainVars

\* How the payload reaches the parser: whole, cut short, or with its
\* base64 text cut short.
MigrationUrlAs(entries, damage) ==
  CASE damage = "truncated" -> TruncatedUrl(entries)
    [] damage = "bad base64" -> BadBase64Url(entries)
    [] OTHER -> MigrationUrl(entries)

CallParseMigration ==
  /\ call = "none"
  /\ \E entries \in { << e >> : e \in Entries } \cup Batches,
        damage \in { "none", "truncated", "bad base64" } :
       /\ damage # "none" => entries \in Batches \ { << >> }
       /\ LET url == MigrationUrlAs(entries, damage)
          IN  /\ args' = [ entries |-> entries, damage |-> damage, url |-> url ]
              /\ ret' = parse_migration_url(url)
  /\ call' = "parse_migration_url"
  /\ UNCHANGED mainVars

NextParse ==
  \/ CallParseOtpauth
  \/ CallParseMigration

SpecParse == InitParse /\ [][NextParse]_vars


(***************************************************************************)
(* The properties.  Texts the properties expect are written out here and   *)
(* not computed by the operators above.                                    *)
(***************************************************************************)
N_MCB_Acme == << "M","C","B"," ","(","A","c","m","e",")" >>
N_Other_Acme == << "O","t","h","e","r"," ","(","A","c","m","e",")" >>
N_GitHub_Ericlein ==
  << "G","i","t","H","u","b"," ","(","E","r","i","c","l","e","i","n",")" >>

\* The accounts of the example URL and of the two example entries.
A_Example ==
  [ name |-> N_MCB_Acme, secret |-> T_ABCDEF, digits |-> 8,
    algorithm |-> S_SHA1 ]

A_GitHub ==
  [ name |-> N_GitHub_Ericlein,
    secret |-> << "A","A","A","Q","=","=","=","=" >>,
    digits |-> 6, algorithm |-> S_SHA1 ]

A_Discord ==
  [ name |-> T_Discord, secret |-> << "7","4","=","=","=","=","=","=" >>,
    digits |-> 6, algorithm |-> S_SHA1 ]

\* The composition rule of the display name, as the specification words it.
NameRule(issuer, name) ==
  CASE issuer # << >> /\ name # << >> ->
         issuer \o << " ", "(" >> \o name \o << ")" >>
    [] issuer # << >> /\ name = << >> -> issuer
    [] issuer = << >> /\ name # << >> -> name
    [] OTHER -> S_Unknown

OtpauthCalled == call = "parse_otpauth_url"
MigrationCalled == call = "parse_migration_url"
WholePayload == MigrationCalled /\ args.damage = "none"

(***************************************************************************)
(* C1: no call of create_accounts_json with a non-empty list overwrites a  *)
(* file that existed before the call: when accounts.json exists the write  *)
(* goes to another path, and every output file that existed keeps its      *)
(* contents.                                                               *)
(***************************************************************************)
C1_NeverOverwrites ==
  [][ /\ \A f \in DOMAIN files : files[f].some => files'[f] = files[f]
      /\ files.accounts_json.some => wrote' # "accounts_json" ]_vars

(***************************************************************************)
(* C8: the account list of process_qr_code is the in-order concatenation   *)
(* of what each decoded string contributes: the example URL its one        *)
(* account, the example migration URL its two accounts in payload order,   *)
(* and a URL without secret, a migration URL with a damaged payload or     *)
(* damaged base64 text, an empty payload and an unrecognized string        *)
(* nothing; no string stops the loop.                                      *)
(***************************************************************************)
C8_Contribution(u) ==
  CASE u = ExampleUrl -> << A_Example >>
    [] u = U_Migration -> << A_GitHub, A_Discord >>
    [] OTHER -> << >>

C8_InOrderConcatenation ==
  /\ pc \in { "loop", "done" } =>
       accounts = Flatten([ k \in 1..(i_url - 1) |-> C8_Contribution(urls[k]) ],
                          1, i_url - 1)
  /\ InLoop => ENABLED (StepOtpauth \/ StepMigration \/ StepUnknown)

\* A damaged migration URL was skipped and the one after it gave its two
\* accounts.
C8_Witness ==
  /\ pc = "done"
  /\ urls = << U_Truncated, U_Migration >>
  /\ accounts = << A_GitHub, A_Discord >>

C2_DigitCodeTable ==
  WholePayload =>
    /\ ret.some
    /\ Len(ret.val) = Len(args.entries)
    /\ \A k \in 1..Len(ret.val) :
         ret.val[k].digits = IF args.entries[k].digits = 2 THEN 8 ELSE 6

(***************************************************************************)
(* C3: no emitted account has an empty secret: the migration path drops    *)
(* the entries whose secret is missing or empty and emits the others of    *)
(* the batch, and the single-account path gives no result for a missing    *)
(* or empty secret parameter.                                              *)
(***************************************************************************)
C3_HasSecret(e) == e.secret.some /\ e.secret.val # << >>

C3_NoEmptySecret ==
  /\ OtpauthCalled /\ ret.some => ret.val.secret # << >>
  /\ OtpauthCalled /\ ~(args.secret.some /\ args.secret.val # << >>) => ~ret.some
  /\ MigrationCalled /\ ret.some =>
       \A k \in 1..Len(ret.val) : Len(ret.val[k].secret) > 0
  /\ WholePayload =>
       /\ ret.some
       /\ Len(ret.val) =
            Cardinality({ k \in 1..Len(args.entries) : C3_HasSecret(args.entries[k]) })

(***************************************************************************)
(* C4: every account of either parser has digits in {6, 7, 8} and an       *)
(* algorithm among SHA1, SHA256, SHA512, MD5; the migration path maps the  *)
(* codes 1, 2, 3, 4 to these names and every other code to SHA1, and the   *)
(* single-account path reads the algorithm parameter without regard to     *)
(* case, a missing or unknown one giving SHA1.                             *)
(***************************************************************************)
C4_ByCode(code) ==
  CASE code = 1 -> << "S","H","A","1" >>
    [] code = 2 -> << "S","H","A","2","5","6" >>
    [] code = 3 -> << "S","H","A","5","1","2" >>
    [] code = 4 -> << "M","D","5" >>
    [] OTHER -> << "S","H","A","1" >>

C4_ByName(p) ==
  IF ~p.some THEN << "S","H","A","1" >>
  ELSE CASE p.val = << "S","H","A","1" >> -> << "S","H","A","1" >>
         [] p.val = << "s","h","a","2","5","6" >> -> << "S","H","A","2","5","6" >>
         [] p.val = << "S","h","a","5","1","2" >> -> << "S","H","A","5","1","2" >>
         [] p.val = << "M","D","5" >> -> << "M","D","5" >>
         [] OTHER -> << "S","H","A","1" >>

C4_ValidFields ==
  /\ OtpauthCalled /\ ret.some =>
       /\ ret.val.digits \in { 6, 7, 8 }
       /\ ret.val.algorithm = C4_ByName(args.algorithm)
  /\ MigrationCalled /\ ret.some =>
       \A k \in 1..Len(ret.val) :
         /\ ret.val[k].digits \in { 6, 7, 8 }
         /\ ret.val[k].algorithm = C4_ByCode(args.entries[k].algorithm)

\* An entry with an algorithm code beyond the table became a SHA1 account.
C4_Witness ==
  /\ WholePayload
  /\ Len(args.entries) = 1
  /\ args.entries[1].algorithm = 5
  /\ ret.some
  /\ Len(ret.val) = 1
  /\ ret.val[1].algorithm = S_SHA1

(***************************************************************************)
(* C5: a single-account URL with a non-empty secret and an invalid digits  *)
(* parameter (a number outside {6, 7, 8}, or no decimal number) still      *)
(* gives an account, with digits 6.                                        *)
(***************************************************************************)
C5_InvalidDigitsGiveSix ==
  ( /\ OtpauthCalled
    /\ args.secret.some /\ args.secret.val # << >>
    /\ args.digits.some
    /\ args.digits.val \notin { << "6" >>, << "7" >>, << "8" >> } ) =>
      (ret.some /\ ret.val.digits = 6)

(***************************************************************************)
(* C6: when the decoded label holds a colon, the text before the first     *)
(* colon is the issuer only if no issuer parameter is given; a given       *)
(* issuer parameter is the issuer, and the text after the first colon is   *)
(* the account name.  The example URL gives "MCB (Acme)" with digits 8.    *)
(***************************************************************************)
C6_Parts(label) ==
  CASE label = << "M","C","B",":","A","c","m","e" >> ->
         [ colon |-> TRUE, before |-> T_MCB, after |-> T_Acme ]
    [] label = << "M","C","B","%","3","A","A","c","m","e" >> ->
         [ colon |-> TRUE, before |-> T_MCB, after |-> T_Acme ]
    [] label = << ":","A","c","m","e" >> ->
         [ colon |-> TRUE, before |-> << >>, after |-> T_Acme ]
    [] label = << "M","C","B",":" >> ->
         [ colon |-> TRUE, before |-> T_MCB, after |-> << >> ]
    [] OTHER -> [ colon |-> FALSE, before |-> << >>, after |-> label ]

C6_LabelPrecedence ==
  (OtpauthCalled /\ ret.some) =>
    /\ C6_Parts(args.label).colon =>
         ret.val.name =
           NameRule(IF args.issuer.some /\ args.issuer.val # << >>
                    THEN args.issuer.val
                    ELSE C6_Parts(args.label).before,
                    C6_Parts(args.label).after)
    /\ args.url = ExampleUrl =>
         (ret.val.name = N_MCB_Acme /\ ret.val.digits = 8)

\* An issuer parameter that differs from the label's prefix won.
C6_Witness ==
  /\ OtpauthCalled
  /\ args.label = << "M","C","B",":","A","c","m","e" >>
  /\ args.issuer = Some(T_Other)
  /\ ret.some
  /\ ret.val.name = N_Other_Acme

(***************************************************************************)
(* C7: both parsers compose the display name by one rule: issuer and name  *)
(* give "issuer (name)", the issuer alone the issuer, the name alone the   *)
(* name, neither "Unknown"; each parser's name is what the other parser's  *)
(* composition gives for the same two texts, and it is never empty.        *)
(***************************************************************************)
C7_SameComposition ==
  /\ OtpauthCalled /\ ret.some =>
       /\ ret.val.name =
            NameRule(LabelSplit(Unquote(args.label), args.issuer).issuer,
                     LabelSplit(Unquote(args.label), args.issuer).account_name)
       /\ ret.val.name =
            DisplayNameMigration(
              LabelSplit(Unquote(args.label), args.issuer).issuer,
              LabelSplit(Unquote(args.label), args.issuer).account_name)
       /\ ret.val.name # << >>
  /\ MigrationCalled /\ ret.some =>
       \A k \in 1..Len(ret.val) :
         /\ ret.val[k].name =
              NameRule(args.entries[k].issuer, args.entries[k].name)
         /\ ret.val[k].name =
              DisplayNameOtpauth(args.entries[k].issuer, args.entries[k].name)
         /\ ret.val[k].name # << >>

\* An entry with neither issuer nor name became the account "Unknown".
C7_Witness ==
  /\ WholePayload
  /\ Len(args.entries) = 1
  /\ args.entries[1].issuer = << >>
  /\ args.entries[1].name = << >>
  /\ ret.some
  /\ Len(ret.val) = 1
  /\ ret.val[1].name = S_Unknown

(***************************************************************************)
(* C9 as stated: the payload of the two example entries (secret 00 01,     *)
(* GitHub, Ericlein; secret FF, Discord, no name) gives two accounts in    *)
(* that order, named "GitHub (Ericlein)" and "Discord", with the secrets   *)
(* "AAE=" and "7A======".                                                  *)
(***************************************************************************)
C9_ExampleAsStated ==
  (WholePayload /\ args.entries = << E_GitHub, E_Discord >>) =>
    /\ ret.some
    /\ Len(ret.val) = 2
    /\ ret.val[1].name = N_GitHub_Ericlein
    /\ ret.val[1].secret = << "A","A","E","=" >>
    /\ ret.val[2].name = T_Discord
    /\ ret.val[2].secret = << "7","A","=","=","=","=","=","=" >>

(***************************************************************************)
(* C9 amended: the same payload gives the two accounts in that order,      *)
(* named "GitHub (Ericlein)" and "Discord", with the secrets "AAAQ====" and *)
(* "74======", the RFC 4648 Base32 of the bytes 00 01 and FF.              *)
(***************************************************************************)
C9_ExampleBase32 ==
  (WholePayload /\ args.entries = << E_GitHub, E_Discord >>) =>
    /\ ret.some
    /\ Len(ret.val) = 2
    /\ ret.val[1].name = N_GitHub_Ericlein
    /\ ret.val[1].secret = << "A","A","A","Q","=","=","=","=" >>
    /\ ret.val[2].name = T_Discord
    /\ ret.val[2].secret = << "7","4","=","=","=","=","=","=" >>

\* The example payload was parsed into two accounts.
C9_Witness ==
  /\ WholePayload
  /\ args.entries = << E_GitHub, E_Discord >>
  /\ ret.some
  /\ Len(ret.val) = 2

=============================================================================
